---- MODULE Spec2Model ----
(***************************************************************************)
(* Model of the S3 media handler, server/media/s3/s3.go: the Headers       *)
(* negotiation, the streaming Upload with its byte counter, and the bucket *)
(* provisioning part of Init as run by several server instances.           *)
(***************************************************************************)
EXTENDS Integers, Sequences, FiniteSets, TLC

VARIABLES
    conf,       \* ah.conf of every server instance
    files,      \* the file-record store (store.Files), keyed by Uid.String()
    hreq,       \* the last Headers call: its arguments and what the collaborators answered
    hret,       \* what that call returned: headers, status, err
    htrace,     \* the collaborator calls that call made
    jsconf,     \* the configuration the cluster's instances are started with
    bucket,     \* the backend's state of the configured bucket name
    policy,     \* the bucket's CORS configuration
    ipc,        \* where each instance is in Init
    ierr,       \* the error each instance's Init returned
    isess,      \* whether each instance's current Init has asked for a backend session
    icalls,     \* the backend calls each instance's current Init made, with their answers
    istart,     \* the bucket state when each instance's current Init began
    runs,       \* how many times each instance has begun Init
    okRuns,     \* how many of them returned success
    env,        \* what has happened so far that is not the instances' doing
    objects,    \* the backend's objects in the configured bucket, by key
    ucall,      \* the Upload call in progress: instance, stream length, StartUpload's answer
    ufdef,      \* the caller's file record (fdef), which Upload updates
    upc,        \* where Upload is
    ustream,    \* the inbound stream: bytes handed out, whether EOF was returned
    ucount,     \* rc.count
    rd,         \* each uploader goroutine: where it is, the bytes it read, its buffer size
    uback,      \* the uploader's side: bytes sent, retries, the error it ends with
    ulog,       \* the store and backend calls Upload has made, in order
    uret,       \* what Upload returned: url, size, err
    del,        \* the Delete call made: locations, what went to the batcher, the answer
    dl,         \* the Download call made and what it returned
    served      \* how many answered requests the caller has taken back

hvars == <<hreq, hret, htrace>>
ivars == <<jsconf, bucket, policy, ipc, ierr, isess, icalls, istart, runs, okRuns, env>>
uvars == <<objects, ucall, ufdef, upc, ustream, ucount, rd, uback, ulog, uret>>
dvars == <<del, dl, served>>
vars == <<conf, files, hvars, ivars, uvars, dvars>>

----------------------------------------------------------------------------
\* Bounds

NInstances == 2
MaxUid == 2
MaxRestarts == 1
MaxStream == 3
MaxBuf == 2
NReaders == 2
MaxRetries == 1

Instances == 1..NInstances
ZeroUid == 0
Uids == 0..MaxUid

----------------------------------------------------------------------------
\* Constants of the program

defaultServeURL == "/v0/file/s/"
defaultCacheControl == "no-cache, must-revalidate"
defaultPresignDuration == 120
StatusNotModified == 304
StatusPermanentRedirect == 308

----------------------------------------------------------------------------
\* Configuration (awsconfig) and the first part of Init

NoConf ==
    [AccessKeyId |-> "", SecretAccessKey |-> "", Region |-> "", BucketName |-> "",
     CorsOrigins |-> <<>>, ServeURL |-> "", PresignTTL |-> 0, CacheControl |-> ""]

MinimalConf ==
    [NoConf EXCEPT !.AccessKeyId = "k", !.SecretAccessKey = "s",
                   !.Region = "r", !.BucketName = "b"]

CustomConf ==
    [MinimalConf EXCEPT !.CorsOrigins = <<"https://a.example">>, !.ServeURL = "/media/",
                        !.PresignTTL = 60, !.CacheControl = "max-age=3600"]

\* The configurations given to Init (already unmarshalled).
JsConfs ==
    { MinimalConf, CustomConf,
      [MinimalConf EXCEPT !.PresignTTL = -5],
      [MinimalConf EXCEPT !.AccessKeyId = ""],
      [MinimalConf EXCEPT !.SecretAccessKey = ""],
      [MinimalConf EXCEPT !.Region = ""],
      [CustomConf EXCEPT !.BucketName = ""] }

\* A slip in lines 79-90: the bucket name is not required.
ValidateConfBucketOptional(c) ==
    IF c.AccessKeyId = "" THEN "missing Access Key ID"
    ELSE IF c.SecretAccessKey = "" THEN "missing Secret Access Key"
    ELSE IF c.Region = "" THEN "missing Region"
    ELSE "nil"

\* Init, lines 79-90: the first required setting that is missing, "nil" if none.
ValidateConf(c) ==
    IF c.AccessKeyId = "" THEN "missing Access Key ID"
    ELSE IF c.SecretAccessKey = "" THEN "missing Secret Access Key"
    ELSE IF c.Region = "" THEN "missing Region"
    ELSE IF c.BucketName = "" THEN "missing Bucket"
    ELSE "nil"

\* A slip in lines 91-93: a zero validity period is kept.
ApplyDefaultsKeepingZero(c) ==
    [c EXCEPT !.PresignTTL = IF c.PresignTTL < 0 THEN defaultPresignDuration ELSE @,
              !.CacheControl = IF c.CacheControl = "" THEN defaultCacheControl ELSE @,
              !.ServeURL = IF c.ServeURL = "" THEN defaultServeURL ELSE @]

\* Init, lines 91-99: defaults of the optional settings.
ApplyDefaults(c) ==
    [c EXCEPT !.PresignTTL = IF c.PresignTTL <= 0 THEN defaultPresignDuration ELSE @,
              !.CacheControl = IF c.CacheControl = "" THEN defaultCacheControl ELSE @,
              !.ServeURL = IF c.ServeURL = "" THEN defaultServeURL ELSE @]

\* The configurations a handler serves requests with: Init passed validation.
EffectiveConfs == { ApplyDefaults(c) : c \in { j \in JsConfs : ValidateConf(j) = "nil" } }

----------------------------------------------------------------------------
\* Identifiers (types.Uid) and their two string encodings

\* Uid.String(): the base64 form, used as the record's Id and the store's key.
UidString(u) == "id" \o ToString(u)

\* Uid.String32(): the base32 form, used as the object key.
UidString32(u) == "KEY" \o ToString(u)

\* types.ParseUid: the identifier a string encodes, ZeroUid if it encodes none.
ParseUid(s) ==
    IF \E u \in Uids \ {ZeroUid} : UidString(u) = s
    THEN CHOOSE u \in Uids \ {ZeroUid} : UidString(u) = s
    ELSE ZeroUid

\* A request URL: directory, file name stem and the asatt query parameter.
URLs ==
    [dir : {defaultServeURL, "/media/"},
     stem : {UidString(u) : u \in Uids \ {ZeroUid}} \cup {"zzz"},
     asatt : {"", "1"}]

\* media.GetIdFromUrl(url, serveUrl)
MediaGetIdFromUrl(url, serveUrl) ==
    IF url.dir # serveUrl THEN ZeroUid ELSE ParseUid(url.stem)

\* awshandler.GetIdFromUrl
GetIdFromUrl(cf, url) == MediaGetIdFromUrl(url, cf.ServeURL)

\* strconv.ParseBool, errors read as false (line 194 drops the error)
ParseBool(s) == s \in {"1", "t", "T", "TRUE", "true", "True"}

----------------------------------------------------------------------------
\* HTTP headers: a function from header names to values; a nil http.Header
\* reads like an empty one.

NilHeader == <<>>

\* http.Header.Get: "" when the header is absent
Get(h, name) == IF name \in DOMAIN h THEN h[name] ELSE ""

Quote(s) == "\"" \o s \o "\""

Methods == {"GET", "HEAD", "POST", "PUT", "OPTIONS", "DELETE"}

ETags == {"", "T1"}

\* Values of If-None-Match a client sends ("" stands for no header).
IfNoneMatchValues == {"", "\"\"", "\"T1\"", "T1"}

ReqHeaders ==
    { [n \in {"If-None-Match", "Origin"} |-> IF n = "Origin" THEN o ELSE v] :
        v \in IfNoneMatchValues \ {""}, o \in {"https://a.example"} }
    \cup { [n \in {"If-None-Match"} |-> v] : v \in IfNoneMatchValues \ {""} }
    \cup { [n \in {"Origin"} |-> "https://a.example"], NilHeader }

\* media.CORSHandler answers with CORS response headers and a status override.
CORSHeaderSets ==
    { NilHeader,
      [n \in {"Access-Control-Allow-Origin", "Vary"} |->
          IF n = "Vary" THEN "Origin" ELSE "https://a.example"] }

StatusNoContent == 204

CORSHandler(method, headers, origins, serve) ==
    IF Get(headers, "Origin") = ""
    THEN { [headers |-> NilHeader, status |-> 0] }
    ELSE { [headers |-> h, status |-> s] :
              h \in CORSHeaderSets,
              s \in IF method = "OPTIONS" THEN {StatusNoContent} ELSE {0, StatusNoContent} }

----------------------------------------------------------------------------
\* The file-record store

FileDefs == [Id : {UidString(u) : u \in Uids \ {ZeroUid}},
             MimeType : {"image/png"}, ETag : ETags, Location : {""}, Status : {"ready"}]

NoFileDef == [Id |-> "", MimeType |-> "", ETag |-> "", Location |-> "", Status |-> ""]

\* store.Files.Get(id): the record, a nil record, or a store error
StoreGet(store, id, fails) ==
    IF fails THEN [fd |-> NoFileDef, found |-> FALSE, err |-> "ErrStore"]
    ELSE IF id \in DOMAIN store THEN [fd |-> store[id], found |-> TRUE, err |-> "nil"]
    ELSE [fd |-> NoFileDef, found |-> FALSE, err |-> "nil"]

\* A slip in lines 299-301: a missing record is handed back without an error.
getFileRecordNilUnchecked(store, fid, fails) ==
    LET r == StoreGet(store, UidString(fid), fails) IN
    IF r.err # "nil" THEN [fd |-> NoFileDef, err |-> r.err]
    ELSE [fd |-> r.fd, err |-> "nil"]

\* awshandler.getFileRecord
getFileRecord(store, fid, fails) ==
    LET r == StoreGet(store, UidString(fid), fails) IN
    IF r.err # "nil" THEN [fd |-> NoFileDef, err |-> r.err]
    ELSE IF ~r.found THEN [fd |-> NoFileDef, err |-> "ErrNotFound"]
    ELSE [fd |-> r.fd, err |-> "nil"]

\* The stores the handler runs against: identifier 1 has a record with or
\* without an integrity tag, or none; identifier 2 has a record or none.
Stores ==
    { s \in UNION { [D -> FileDefs] : D \in SUBSET {UidString(1), UidString(2)} } :
        /\ \A id \in DOMAIN s : s[id].Id = id
        /\ UidString(2) \in DOMAIN s => s[UidString(2)].ETag = "T1" }

----------------------------------------------------------------------------
\* Headers

NoReq == [op |-> "none", Bucket |-> "", Key |-> "", ResponseCacheControl |-> "",
          ResponseContentType |-> "", ResponseContentDisposition |-> ""]

\* A slip in lines 192-209: every method but HEAD gets a GetObject request.
MakeAwsReqForAnyMethod(cf, method, url, fid, fdef) ==
    IF method = "HEAD"
    THEN [NoReq EXCEPT !.op = "HeadObject", !.Bucket = cf.BucketName,
                       !.Key = UidString32(fid)]
    ELSE [op |-> "GetObject", Bucket |-> cf.BucketName, Key |-> UidString32(fid),
          ResponseCacheControl |-> cf.CacheControl,
          ResponseContentType |-> fdef.MimeType,
          ResponseContentDisposition |-> IF ParseBool(url.asatt) THEN "attachment" ELSE ""]

\* A slip in lines 199 and 207: the key is the identifier's other encoding.
MakeAwsReqOtherEncoding(cf, method, url, fid, fdef) ==
    IF method = "GET"
    THEN [op |-> "GetObject", Bucket |-> cf.BucketName, Key |-> UidString(fid),
          ResponseCacheControl |-> cf.CacheControl,
          ResponseContentType |-> fdef.MimeType,
          ResponseContentDisposition |-> IF ParseBool(url.asatt) THEN "attachment" ELSE ""]
    ELSE IF method = "HEAD"
    THEN [NoReq EXCEPT !.op = "HeadObject", !.Bucket = cf.BucketName,
                       !.Key = UidString(fid)]
    ELSE NoReq

\* Lines 192-209: the backend request Headers builds for the method.
MakeAwsReq(cf, method, url, fid, fdef) ==
    IF method = "GET"
    THEN [op |-> "GetObject", Bucket |-> cf.BucketName, Key |-> UidString32(fid),
          ResponseCacheControl |-> cf.CacheControl,
          ResponseContentType |-> fdef.MimeType,
          ResponseContentDisposition |-> IF ParseBool(url.asatt) THEN "attachment" ELSE ""]
    ELSE IF method = "HEAD"
    THEN [NoReq EXCEPT !.op = "HeadObject", !.Bucket = cf.BucketName,
                       !.Key = UidString32(fid)]
    ELSE NoReq

\* request.Presign: the signed URL, or "" and an error
Presign(req, ttl, ok) ==
    IF ok
    THEN [url |-> "https://" \o req.Bucket \o ".s3/" \o req.Key \o "?op=" \o req.op
                    \o "&disp=" \o req.ResponseContentDisposition
                    \o "&X-Amz-Expires=" \o ToString(ttl),
          err |-> "nil"]
    ELSE [url |-> "", err |-> "ErrPresign"]

\* Line 183: the conditional-request test on the headers in hand.
NotModified(headers, fdef) ==
    fdef.ETag # "" /\ Get(headers, "If-None-Match") = Quote(fdef.ETag)

\* Lines 184-187
NotModifiedHeaders(cf, fdef) ==
    [n \in {"ETag", "Cache-Control"} |->
        IF n = "ETag" THEN Quote(fdef.ETag) ELSE cf.CacheControl]

\* A slip in lines 216-221: the ETag header carries the bare tag.
RedirectHeadersBareTag(cf, fdef, url) ==
    [n \in {"Location", "ETag", "Content-Type", "Cache-Control"} |->
        CASE n = "Location" -> url
          [] n = "ETag" -> fdef.ETag
          [] n = "Content-Type" -> "application/json; charset=utf-8"
          [] OTHER -> cf.CacheControl]

\* Lines 216-221
RedirectHeaders(cf, fdef, url) ==
    [n \in {"Location", "ETag", "Content-Type", "Cache-Control"} |->
        CASE n = "Location" -> url
          [] n = "ETag" -> Quote(fdef.ETag)
          [] n = "Content-Type" -> "application/json; charset=utf-8"
          [] OTHER -> cf.CacheControl]

NoTrace == [cors |-> 0, getId |-> 0, storeGets |-> <<>>, awsReqs |-> <<>>, presigns |-> 0]

Ret(h, s, e, t) == [headers |-> h, status |-> s, err |-> e, trace |-> t]

\* Lines 211-224: sign the request, if one was built.
SignAndReturn(cf, fdef, awsReq, signOK, t) ==
    IF awsReq # NoReq
    THEN LET p == Presign(awsReq, cf.PresignTTL, signOK) IN
         Ret(RedirectHeaders(cf, fdef, p.url), StatusPermanentRedirect, p.err,
             [t EXCEPT !.awsReqs = <<awsReq>>, !.presigns = 1])
    ELSE Ret(NilHeader, 0, "nil", t)

\* A slip in line 169: PUT is not left to the upload path.
AnsweredByCORSPostOnly(status, method) ==
    status # 0 \/ method = "POST"

\* Line 169: the CORS step answered, or the method is one the upload path serves.
AnsweredByCORS(status, method) ==
    status # 0 \/ method = "POST" \/ method = "PUT"

\* awshandler.Headers. cors is what media.CORSHandler answered, getFails whether
\* the store lookup fails, signOK whether signing succeeds.
HeadersCall(cf, store, method, url, reqHeaders, serve, cors, getFails, signOK) ==
    LET headers == cors.headers     \* line 168 assigns the parameter headers
        status == cors.status
        t1 == [NoTrace EXCEPT !.cors = 1]
    IN
    IF AnsweredByCORS(status, method)
    THEN Ret(headers, status, "nil", t1)
    ELSE
    LET fid == GetIdFromUrl(cf, url)
        t2 == [t1 EXCEPT !.getId = 1]
    IN
    IF fid = ZeroUid
    THEN Ret(NilHeader, 0, "ErrNotFound", t2)
    ELSE
    LET rec == getFileRecord(store, fid, getFails)
        t3 == [t2 EXCEPT !.storeGets = <<UidString(fid)>>]
        fdef == rec.fd
    IN
    IF rec.err # "nil"
    THEN Ret(NilHeader, 0, rec.err, t3)
    ELSE IF NotModified(headers, fdef)
    THEN Ret(NotModifiedHeaders(cf, fdef), StatusNotModified, "nil", t3)
    ELSE SignAndReturn(cf, fdef, MakeAwsReq(cf, method, url, fid, fdef), signOK, t3)

NoCall == [inst |-> 0, method |-> "", url |-> [dir |-> "", stem |-> "", asatt |-> ""],
           headers |-> NilHeader, serve |-> FALSE,
           cors |-> [headers |-> NilHeader, status |-> 0],
           getFails |-> FALSE, signOK |-> FALSE]

NoRet == Ret(NilHeader, 0, "nil", NoTrace)

\* No Headers call is in progress.
HeadersIdle ==
    /\ hreq = NoCall
    /\ hret = [headers |-> NilHeader, status |-> 0, err |-> "nil"]
    /\ htrace = NoTrace

\* No Delete call and no Download call has been made.
NoDelete == [inst |-> 0, locations |-> <<>>, toDelete |-> <<>>, batches |-> 0,
             before |-> <<>>, backendErr |-> "nil", err |-> "nil"]

NoDownload == [inst |-> 0, url |-> [dir |-> "", stem |-> "", asatt |-> ""],
               fdef |-> NoFileDef, body |-> "nil", err |-> "nil", calls |-> <<>>]

DeleteIdle == del = NoDelete /\ dl = NoDownload /\ served = 0


----------------------------------------------------------------------------
\* Upload (lines 228-264) and the byte counter (lines 58-70)

Readers == 1..NReaders

\* mime.ExtensionsByType
ExtensionsByType(m) == IF m = "image/png" THEN <<".png">> ELSE <<>>

\* What the backend reports as the uploaded object's ETag ("nil": none).
ResultETags == {"nil", "\"E1\"", "E2"}

\* strings.Trim(s, "\""): s without its leading and trailing double quotes
TrimQuotes(s) ==
    CHOOSE b \in {"", "E1", "E2"} : s \in {b, Quote(b), "\"" \o b, b \o "\""}

\* The records callers hand to Upload.
UploadFileDefs ==
    [Id : {UidString(u) : u \in Uids \ {ZeroUid}},
     MimeType : {"image/png", "application/x-none"},
     ETag : {""}, Location : {""}, Status : {""}]

NoUpload == [inst |-> 0, len |-> 0, key |-> "", startErr |-> "nil"]

NoUploadRet == [url |-> "", size |-> 0, err |-> "nil"]

IdleReader == [pc |-> "idle", n |-> 0, buf |-> 0]

NoBackend == [sent |-> 0, retries |-> 0, err |-> "nil", overlapped |-> FALSE]

\* No Upload call is in progress and the bucket is empty.
UploadIdle ==
    /\ objects = <<>>
    /\ ucall = NoUpload
    /\ ufdef = NoFileDef
    /\ upc = "idle"
    /\ ustream = [pos |-> 0, eof |-> FALSE]
    /\ ucount = 0
    /\ rd = [t \in Readers |-> IdleReader]
    /\ uback = NoBackend
    /\ ulog = <<>>
    /\ uret = NoUploadRet

\* A slip in lines 236-239: the failure is logged and the upload goes on.
ProceedsRegardless(startErr) == TRUE

\* Lines 236-239: Upload goes on to the backend only if StartUpload succeeded.
ProceedsToBackend(startErr) == startErr = "nil"

\* Lines 228-247: the key, the record marked in the store, the counter set
\* up and the uploader started on it.
UploadCallWith(i, lens) ==
    /\ upc = "idle"
    /\ ucall = NoUpload
    /\ \E fdef \in UploadFileDefs, len \in lens, startErr \in {"nil", "ErrStore"} :
         LET key == UidString32(ParseUid(fdef.Id)) IN
         /\ ucall' = [inst |-> i, len |-> len, key |-> key, startErr |-> startErr]
         /\ ufdef' = IF startErr = "nil" THEN [fdef EXCEPT !.Status = "uploading"] ELSE fdef
         /\ files' = IF startErr = "nil"
                     THEN (fdef.Id :> [fdef EXCEPT !.Status = "uploading"]) @@ files
                     ELSE files
         /\ IF ProceedsToBackend(startErr)
            THEN /\ upc' = "uploading"
                 /\ ulog' = <<"StartUpload", "Upload">>
                 /\ uret' = uret
            ELSE /\ upc' = "done"
                 /\ ulog' = <<"StartUpload">>
                 /\ uret' = [url |-> "", size |-> 0, err |-> startErr]
    /\ UNCHANGED <<conf, ivars, hvars, dvars, objects, ustream, ucount, rd, uback>>

\* An upload of a stream of any length up to MaxStream.
UploadCall(i) == UploadCallWith(i, 0..MaxStream)

Min(a, b) == IF a < b THEN a ELSE b

\* Line 67: a goroutine of the uploader reads from the inbound stream through
\* the counter's Read.
ReadInner(t) ==
    /\ upc = "uploading"
    /\ rd[t].pc = "idle"
    /\ ~ustream.eof
    /\ uback.err = "nil"
    /\ \E buf \in 1..MaxBuf :
         LET n == Min(buf, ucall.len - ustream.pos) IN
         /\ rd' = [rd EXCEPT ![t] = [pc |-> "count", n |-> n, buf |-> buf]]
         /\ \E eof \in (IF n = 0 THEN {TRUE}
                        ELSE IF ustream.pos + n = ucall.len THEN BOOLEAN ELSE {FALSE}) :
              ustream' = [pos |-> ustream.pos + n, eof |-> eof]
    /\ uback' = [uback EXCEPT !.overlapped =
                    @ \/ \E o \in Readers \ {t} : rd[o].pc = "count"]
    /\ UNCHANGED <<conf, files, ivars, hvars, dvars, objects, ucall, ufdef, upc, ucount, ulog, uret>>

\* A slip in line 68: the size of the buffer is counted.
CountedBuffer(n, buf) == buf

\* Line 68: what a Read adds to the counter.
Counted(n, buf) == n

\* Line 68: atomic.AddInt64(&rc.count, int64(n)); the bytes read are then the
\* goroutine's to send.
ReadCount(t) ==
    /\ rd[t].pc = "count"
    /\ ucount' = ucount + Counted(rd[t].n, rd[t].buf)
    /\ rd' = [rd EXCEPT ![t].pc = IF rd[t].n > 0 THEN "send" ELSE "idle"]
    /\ UNCHANGED <<conf, files, ivars, hvars, dvars, objects, ucall, ufdef, upc, ustream, uback,
                   ulog, uret>>

\* The uploader sends the part it read; a failed send is tried again with the
\* bytes it holds.
SendPart(t) ==
    /\ rd[t].pc = "send"
    /\ \/ /\ uback' = [uback EXCEPT !.sent = @ + rd[t].n]
          /\ rd' = [rd EXCEPT ![t] = IdleReader]
       \/ /\ uback.retries < MaxRetries
          /\ uback' = [uback EXCEPT !.retries = @ + 1]
          /\ UNCHANGED rd
    /\ UNCHANGED <<conf, files, ivars, hvars, dvars, objects, ucall, ufdef, upc, ustream, ucount,
                   ulog, uret>>

\* The backend or the network fails the upload.
UploadBreaks ==
    /\ upc = "uploading"
    /\ uback.err = "nil"
    /\ uback' = [uback EXCEPT !.err = "RequestError"]
    /\ UNCHANGED <<conf, files, ivars, hvars, dvars, objects, ucall, ufdef, upc, ustream, ucount,
                   rd, ulog, uret>>

\* The uploader's goroutines have all finished.
UploaderQuiet == \A t \in Readers : rd[t].pc = "idle" \/ (uback.err # "nil" /\ rd[t].pc = "send")

\* A slip in line 250: the bytes read so far are reported with the error.
FailureResultCounting(err, count) == [url |-> "", size |-> count, err |-> err]

\* Line 250: what Upload returns when uploader.Upload failed.
FailureResult(err, count) == [url |-> "", size |-> 0, err |-> err]

\* Lines 249-251: uploader.Upload returned an error.
UploadFails ==
    /\ upc = "uploading"
    /\ uback.err # "nil"
    /\ UploaderQuiet
    /\ upc' = "done"
    /\ uret' = FailureResult(uback.err, ucount)
    /\ UNCHANGED <<conf, files, ivars, hvars, dvars, objects, ucall, ufdef, ustream, ucount, rd,
                   uback, ulog>>

\* Lines 253-257: the served file name.
FileName(fdef) ==
    LET ext == ExtensionsByType(fdef.MimeType) IN
    IF Len(ext) > 0 THEN fdef.Id \o ext[1] ELSE fdef.Id

\* Lines 249-263: uploader.Upload returned a result; the record gets the
\* location and the tag, the caller the URL and the count.
UploadSucceeds ==
    /\ upc = "uploading"
    /\ uback.err = "nil"
    /\ ustream.eof
    /\ UploaderQuiet
    /\ \E etag \in ResultETags :
         /\ objects' = (ucall.key :> [size |-> uback.sent, ETag |-> etag,
                                      CacheControl |-> conf[ucall.inst].CacheControl])
                       @@ objects
         /\ ufdef' = [ufdef EXCEPT !.Location = ucall.key,
                                   !.ETag = IF etag # "nil" THEN TrimQuotes(etag) ELSE @]
    /\ upc' = "done"
    /\ uret' = [url |-> conf[ucall.inst].ServeURL \o FileName(ufdef),
                size |-> ucount, err |-> "nil"]
    /\ UNCHANGED <<conf, files, ivars, hvars, dvars, ucall, ustream, ucount, rd, uback, ulog>>


----------------------------------------------------------------------------
\* The backend's bucket and Init's provisioning of it (lines 115-163)

\* "none": no such bucket; "creating": a CreateBucket is in progress;
\* "owned": the bucket exists and is this account's; "foreign": it is another
\* account's.
BucketStates == {"none", "creating", "owned", "foreign"}

NoPolicy == [AllowedMethods |-> <<>>, AllowedOrigins |-> <<>>, AllowedHeaders |-> <<>>]

\* A slip in lines 147-150: the configured origins are used as they are.
PolicyWithoutDefaultOrigin(cf) ==
    [AllowedMethods |-> <<"GET", "HEAD">>,
     AllowedOrigins |-> cf.CorsOrigins,
     AllowedHeaders |-> <<"*">>]

\* Lines 147-159: the CORS configuration Init puts on a bucket it created.
RequiredPolicy(cf) ==
    [AllowedMethods |-> <<"GET", "HEAD">>,
     AllowedOrigins |-> IF Len(cf.CorsOrigins) = 0 THEN <<"*">> ELSE cf.CorsOrigins,
     AllowedHeaders |-> <<"*">>]

\* A slip in lines 132-136: a creation in progress elsewhere is not recognised.
BenignWithoutAborted == {"BucketAlreadyExists", "BucketAlreadyOwnedByYou"}

\* Lines 132-136: the creation errors that mean someone else has the bucket.
BenignCreateErrors == {"BucketAlreadyExists", "BucketAlreadyOwnedByYou", "OperationAborted"}

\* Failures of the backend or the network that are no creation race.
HardErrors == {"RequestError"}

\* What HeadBucket answers for a bucket in state b.
HeadBucketAnswers(b) ==
    (IF b = "owned" THEN {"nil"}
     ELSE IF b = "foreign" THEN {"Forbidden"}
     ELSE {"NoSuchBucket"}) \cup HardErrors

\* What CreateBucket answers at once for a bucket in state b ("none": the
\* creation starts and is answered when it completes).
CreateBucketAnswers(b) ==
    (IF b = "owned" THEN {"BucketAlreadyOwnedByYou"}
     ELSE IF b = "foreign" THEN {"BucketAlreadyExists"}
     ELSE IF b = "creating" THEN {"OperationAborted"}
     ELSE {}) \cup HardErrors

\* The number of runs of Init begun by the instances 1..n.
RECURSIVE SumRuns(_)
SumRuns(n) == IF n = 0 THEN 0 ELSE runs[n] + SumRuns(n - 1)

Outcome(p, e) == [pc |-> p, err |-> e]

\* A slip in lines 117-120: the policy is put on a bucket found to exist.
AfterProbeEnsuringPolicy(code) ==
    IF code = "nil" THEN Outcome("cors", "nil")
    ELSE IF code # "NoSuchBucket" THEN Outcome("done", code)
    ELSE Outcome("create", "nil")

\* A slip in lines 122-125: every probe error is read as a missing bucket.
AfterProbeLenient(code) ==
    IF code = "nil" THEN Outcome("done", "nil")
    ELSE Outcome("create", "nil")

\* Lines 117-125: where Init goes after HeadBucket answered code.
AfterProbe(code) ==
    IF code = "nil" THEN Outcome("done", "nil")
    ELSE IF code # "NoSuchBucket" THEN Outcome("done", code)
    ELSE Outcome("create", "nil")

\* A slip in lines 129-141: a benign creation error is followed by the policy.
AfterCreatePolicyAnyway(code) ==
    IF code # "nil"
    THEN IF code \in BenignCreateErrors THEN Outcome("cors", "nil") ELSE Outcome("done", code)
    ELSE Outcome("cors", "nil")

\* Lines 129-141: where Init goes after CreateBucket answered code.
AfterCreate(code) ==
    IF code # "nil"
    THEN Outcome("done", IF code \in BenignCreateErrors THEN "nil" ELSE code)
    ELSE Outcome("cors", "nil")

\* Lines 151-162: Init returns what PutBucketCors answered.
AfterCors(code) == Outcome("done", code)

NoEnv == [fault |-> FALSE, foreign |-> FALSE, bucket0 |-> "owned"]

Call(op, code) == [op |-> op, code |-> code]

\* Instance i moves on with outcome o after the backend call c.
Proceed(i, o, c) ==
    /\ ipc' = [ipc EXCEPT ![i] = o.pc]
    /\ ierr' = [ierr EXCEPT ![i] = o.err]
    /\ icalls' = [icalls EXCEPT ![i] = Append(@, c)]
    /\ okRuns' = [okRuns EXCEPT ![i] = IF o.pc = "done" /\ o.err = "nil" THEN @ + 1 ELSE @]
    /\ env' = [env EXCEPT !.fault = @ \/ c.code \in HardErrors]

\* Lines 73-113: parse and validate the configuration, apply the defaults,
\* create the session.
InitConfig(i) ==
    /\ ipc[i] = "idle"
    /\ istart' = [istart EXCEPT ![i] = bucket]
    /\ IF ~jsconf.parses
       THEN /\ ipc' = [ipc EXCEPT ![i] = "done"]
            /\ ierr' = [ierr EXCEPT ![i] = "failed to parse config"]
            /\ UNCHANGED <<conf, env, isess>>
       ELSE IF ValidateConf(jsconf.fields) # "nil"
       THEN /\ conf' = [conf EXCEPT ![i] = jsconf.fields]
            /\ ipc' = [ipc EXCEPT ![i] = "done"]
            /\ ierr' = [ierr EXCEPT ![i] = ValidateConf(jsconf.fields)]
            /\ UNCHANGED <<env, isess>>
       ELSE /\ conf' = [conf EXCEPT ![i] = ApplyDefaults(jsconf.fields)]
            /\ isess' = [isess EXCEPT ![i] = TRUE]
            /\ \E sessOK \in BOOLEAN :
                 /\ ipc' = [ipc EXCEPT ![i] = IF sessOK THEN "probe" ELSE "done"]
                 /\ ierr' = [ierr EXCEPT ![i] = IF sessOK THEN "nil" ELSE "SessionError"]
                 /\ env' = [env EXCEPT !.fault = @ \/ ~sessOK]
    /\ UNCHANGED <<jsconf, bucket, policy, icalls, runs, okRuns, files, hvars, uvars, dvars>>

\* Line 116 and what follows from its answer.
HeadBucket(i) ==
    /\ ipc[i] = "probe"
    /\ \E code \in HeadBucketAnswers(bucket) :
         Proceed(i, AfterProbe(code), Call("HeadBucket", code))
    /\ UNCHANGED <<conf, jsconf, isess, bucket, policy, istart, runs, files, hvars, uvars, dvars>>

\* Line 128: the call reaches the backend; a bucket that can be created is
\* being created, any other call is answered.
CreateBucket(i) ==
    /\ ipc[i] = "create"
    /\ \/ /\ bucket = "none"
          /\ bucket' = "creating"
          /\ ipc' = [ipc EXCEPT ![i] = "creating"]
          /\ UNCHANGED <<ierr, icalls, okRuns, env>>
       \/ /\ \E code \in CreateBucketAnswers(bucket) :
               Proceed(i, AfterCreate(code), Call("CreateBucket", code))
          /\ UNCHANGED bucket
    /\ UNCHANGED <<conf, jsconf, isess, policy, istart, runs, files, hvars, uvars, dvars>>

\* Line 128: the creation completes, or fails, and CreateBucket returns.
CreateBucketReturns(i) ==
    /\ ipc[i] = "creating"
    /\ \E code \in {"nil"} \cup HardErrors :
         /\ bucket' = IF code = "nil" THEN "owned" ELSE "none"
         /\ Proceed(i, AfterCreate(code), Call("CreateBucket", code))
    /\ UNCHANGED <<conf, jsconf, isess, policy, istart, runs, files, hvars, uvars, dvars>>

\* Lines 147-160
PutBucketCors(i) ==
    /\ ipc[i] = "cors"
    /\ \E code \in (IF bucket = "owned" THEN {"nil"} ELSE {"AccessDenied"}) \cup HardErrors :
         /\ policy' = IF code = "nil" THEN RequiredPolicy(conf[i]) ELSE policy
         /\ Proceed(i, AfterCors(code), Call("PutBucketCors", code))
    /\ UNCHANGED <<conf, jsconf, isess, bucket, istart, runs, files, hvars, uvars, dvars>>

\* How many times instances have been started again.
Restarts == SumRuns(NInstances) - NInstances

\* The server instance is started again and will run Init again.
Restart(i) ==
    /\ ipc[i] = "done"
    /\ Restarts < MaxRestarts
    /\ runs' = [runs EXCEPT ![i] = @ + 1]
    /\ ipc' = [ipc EXCEPT ![i] = "idle"]
    /\ ierr' = [ierr EXCEPT ![i] = "nil"]
    /\ icalls' = [icalls EXCEPT ![i] = <<>>]
    /\ isess' = [isess EXCEPT ![i] = FALSE]
    /\ UNCHANGED <<conf, jsconf, bucket, policy, istart, okRuns, env, files, hvars, uvars, dvars>>

\* Another account takes the bucket name.
ForeignCreate ==
    /\ bucket = "none"
    /\ bucket' = "foreign"
    /\ env' = [env EXCEPT !.foreign = TRUE]
    /\ UNCHANGED <<conf, jsconf, isess, policy, ipc, ierr, icalls, istart, runs, okRuns, files, hvars, uvars, dvars>>

JsInputs ==
    [parses : {TRUE}, fields : JsConfs] \cup {[parses |-> FALSE, fields |-> NoConf]}

\* The cluster starts: no instance has run Init; the bucket is missing, or
\* exists with or without the policy.
InitProvision ==
    /\ jsconf \in JsInputs
    /\ conf = [i \in Instances |-> NoConf]
    /\ \E b \in {"none", "owned"} :
         /\ bucket = b
         /\ env = [fault |-> FALSE, foreign |-> FALSE, bucket0 |-> b]
         /\ policy \in IF b = "none" THEN {NoPolicy}
                       ELSE {NoPolicy, RequiredPolicy(ApplyDefaults(jsconf.fields))}
    /\ ipc = [i \in Instances |-> "idle"]
    /\ ierr = [i \in Instances |-> "nil"]
    /\ icalls = [i \in Instances |-> <<>>]
    /\ isess = [i \in Instances |-> FALSE]
    /\ istart = [i \in Instances |-> bucket]
    /\ runs = [i \in Instances |-> 1]
    /\ okRuns = [i \in Instances |-> 0]
    /\ files = <<>>
    /\ HeadersIdle
    /\ UploadIdle
    /\ DeleteIdle

NextProvision ==
    \/ \E i \in Instances :
         \/ InitConfig(i)
         \/ HeadBucket(i)
         \/ CreateBucket(i)
         \/ CreateBucketReturns(i)
         \/ PutBucketCors(i)
         \/ Restart(i)
    \/ ForeignCreate

SpecProvision == InitProvision /\ [][NextProvision]_vars

----------------------------------------------------------------------------
\* Headers as an operation of a provisioned instance

HeadersWith(i, methods, headerSets, faults) ==
    /\ hreq = NoCall
    /\ \E method \in methods, url \in URLs, reqHeaders \in headerSets, serve \in BOOLEAN,
       getFails \in faults, signOK \in {~f : f \in faults} :
       \E cors \in CORSHandler(method, reqHeaders, conf[i].CorsOrigins, serve) :
        LET r == HeadersCall(conf[i], files, method, url, reqHeaders, serve,
                             cors, getFails, signOK) IN
        /\ hreq' = [inst |-> i, method |-> method, url |-> url, headers |-> reqHeaders,
                    serve |-> serve, cors |-> cors, getFails |-> getFails,
                    signOK |-> signOK]
        /\ hret' = [headers |-> r.headers, status |-> r.status, err |-> r.err]
        /\ htrace' = r.trace
        /\ UNCHANGED <<conf, files, ivars, uvars, dvars>>

\* A request with any method and headers; the store or signing may fail.
Headers(i) == HeadersWith(i, Methods, ReqHeaders, BOOLEAN)

\* Every instance has been through Init with configuration c and the bucket
\* is provisioned.
Provisioned(c) ==
    /\ jsconf = [parses |-> TRUE, fields |-> c]
    /\ bucket = "owned"
    /\ policy = RequiredPolicy(c)
    /\ ipc = [i \in Instances |-> "done"]
    /\ ierr = [i \in Instances |-> "nil"]
    /\ icalls = [i \in Instances |-> <<>>]
    /\ isess = [i \in Instances |-> TRUE]
    /\ istart = [i \in Instances |-> "owned"]
    /\ runs = [i \in Instances |-> 1]
    /\ okRuns = [i \in Instances |-> 1]
    /\ env = NoEnv

InitHeaders ==
    /\ \E c \in EffectiveConfs : conf = [i \in Instances |-> c] /\ Provisioned(c)
    /\ files \in Stores
    /\ HeadersIdle
    /\ UploadIdle
    /\ DeleteIdle

\* The caller has consumed the result; the handler is ready for the next request.
HeadersReturn ==
    /\ hreq # NoCall
    /\ hreq' = NoCall
    /\ hret' = [headers |-> NilHeader, status |-> 0, err |-> "nil"]
    /\ htrace' = NoTrace
    /\ UNCHANGED <<conf, files, ivars, uvars, dvars>>

NextHeaders ==
    \/ \E i \in Instances : Headers(i)
    \/ HeadersReturn

SpecHeaders == InitHeaders /\ [][NextHeaders]_vars

----------------------------------------------------------------------------
\* Upload as an operation of a provisioned instance

InitUpload ==
    /\ \E c \in EffectiveConfs : conf = [i \in Instances |-> c] /\ Provisioned(c)
    /\ files = <<>>
    /\ HeadersIdle
    /\ UploadIdle
    /\ DeleteIdle

NextUpload ==
    \/ \E i \in Instances : UploadCall(i)
    \/ \E t \in Readers :
         \/ ReadInner(t)
         \/ ReadCount(t)
         \/ SendPart(t)
    \/ UploadBreaks
    \/ UploadFails
    \/ UploadSucceeds

SpecUpload == InitUpload /\ [][NextUpload]_vars

----------------------------------------------------------------------------
\* Delete (lines 272-286), Download (lines 266-270) and the requests of one
\* caller after another against the same bucket

MaxLocs == 2
MaxRequests == 2

\* The locations a caller asks to delete: keys of identifiers and a key that
\* was never stored.
DeleteKeys == {UidString32(u) : u \in Uids \ {ZeroUid}} \cup {"gone"}

DeleteLists == UNION { [1..n -> DeleteKeys] : n \in 0..MaxLocs }

\* A slip in lines 275-281: the loop starts at the second location.
ToDeleteFromSecond(cf, locations) ==
    [j \in 1..Len(locations) |->
        IF j = 1 THEN [Key |-> "", Bucket |-> ""]
        ELSE [Key |-> locations[j], Bucket |-> cf.BucketName]]

\* Lines 274-281: one delete object per location, in the configured bucket.
ToDelete(cf, locations) ==
    [j \in 1..Len(locations) |-> [Key |-> locations[j], Bucket |-> cf.BucketName]]

\* s3manager.BatchDelete.Delete on the bucket's objects objs: nothing is sent
\* for an empty list; a key that is not there counts as deleted; when the
\* backend fails, any of the listed objects may be gone and an error comes back.
BatchDelete(objs, toDelete, bucketName, fault) ==
    LET listed == { toDelete[j].Key : j \in { k \in 1..Len(toDelete) :
                                                toDelete[k].Bucket = bucketName } }
        Without(K) == [k \in DOMAIN objs \ K |-> objs[k]]
    IN
    IF Len(toDelete) = 0 THEN { [objects |-> objs, err |-> "nil"] }
    ELSE IF ~fault THEN { [objects |-> Without(listed), err |-> "nil"] }
    ELSE { [objects |-> Without(K), err |-> "BatchError"] : K \in SUBSET listed }

\* No request is being served.
StorageIdle ==
    /\ upc = "idle" /\ ucall = NoUpload
    /\ hreq = NoCall
    /\ del = NoDelete
    /\ dl = NoDownload

\* awshandler.Delete
Delete(i) ==
    /\ StorageIdle
    /\ \E locations \in DeleteLists, fault \in BOOLEAN :
         LET toDelete == ToDelete(conf[i], locations) IN
         \E r \in BatchDelete(objects, toDelete, conf[i].BucketName, fault) :
            /\ del' = [inst |-> i, locations |-> locations, toDelete |-> toDelete,
                       batches |-> 1, before |-> objects,
                       backendErr |-> IF fault /\ Len(toDelete) > 0
                                      THEN "RequestError" ELSE "nil",
                       err |-> r.err]
            /\ objects' = r.objects
    /\ UNCHANGED <<conf, files, ivars, hvars, dl, served, ucall, ufdef, upc, ustream,
                   ucount, rd, uback, ulog, uret>>

\* A slip in line 269: the call reports nothing.
DownloadResultSilent(url) ==
    [fdef |-> NoFileDef, body |-> "nil", err |-> "nil", calls |-> <<>>]

\* Line 269: return nil, nil, types.ErrUnsupported
DownloadResult(url) ==
    [fdef |-> NoFileDef, body |-> "nil", err |-> "ErrUnsupported", calls |-> <<>>]

\* awshandler.Download
Download(i) ==
    /\ StorageIdle
    /\ \E url \in URLs :
         LET r == DownloadResult(url) IN
         dl' = [inst |-> i, url |-> url, fdef |-> r.fdef, body |-> r.body,
                err |-> r.err, calls |-> r.calls]
    /\ UNCHANGED <<conf, files, ivars, hvars, uvars, del, served>>

\* The caller takes the answer back: it persists the record a successful
\* Upload handed back, and the handler is ready for the next request.
Served ==
    /\ upc = "done" \/ hreq # NoCall \/ del # NoDelete \/ dl # NoDownload
    /\ served + 1 < MaxRequests
    /\ served' = served + 1
    /\ files' = IF upc = "done" /\ uret.err = "nil"
                THEN (ufdef.Id :> [ufdef EXCEPT !.Status = "ready"]) @@ files
                ELSE files
    /\ hreq' = NoCall
    /\ hret' = [headers |-> NilHeader, status |-> 0, err |-> "nil"]
    /\ htrace' = NoTrace
    /\ ucall' = NoUpload
    /\ ufdef' = NoFileDef
    /\ upc' = "idle"
    /\ ustream' = [pos |-> 0, eof |-> FALSE]
    /\ ucount' = 0
    /\ rd' = [t \in Readers |-> IdleReader]
    /\ uback' = NoBackend
    /\ ulog' = <<>>
    /\ uret' = NoUploadRet
    /\ del' = NoDelete
    /\ dl' = NoDownload
    /\ UNCHANGED <<conf, ivars, objects>>

InitStorage ==
    /\ \E c \in EffectiveConfs : conf = [i \in Instances |-> c] /\ Provisioned(c)
    /\ files = <<>>
    /\ HeadersIdle
    /\ UploadIdle
    /\ DeleteIdle

\* One request at a time: uploads of a one-byte stream read by the uploader's
\* first goroutine, GET and HEAD requests without request headers, deletes
\* and downloads.
NextStorage ==
    \/ \E i \in Instances : StorageIdle /\ UploadCallWith(i, {1})
    \/ ReadInner(1)
    \/ ReadCount(1)
    \/ SendPart(1)
    \/ UploadBreaks
    \/ UploadFails
    \/ UploadSucceeds
    \/ \E i \in Instances :
         StorageIdle /\ HeadersWith(i, {"GET", "HEAD"}, {NilHeader}, {FALSE})
    \/ \E i \in Instances : Delete(i)
    \/ \E i \in Instances : Download(i)
    \/ Served

SpecStorage == InitStorage /\ [][NextStorage]_vars

----------------------------------------------------------------------------
\* Properties of Headers

\* The CORS step left the request to the rest of Headers.
NotAnsweredByCORS ==
    /\ hreq # NoCall
    /\ hreq.cors.status = 0
    /\ hreq.method \notin {"POST", "PUT"}

\* The identifier the request URL resolves to.
ReqFid == GetIdFromUrl(conf[hreq.inst], hreq.url)

\* The request's URL resolves to a record the store returns.
RecordFound ==
    /\ NotAnsweredByCORS
    /\ ReqFid # ZeroUid
    /\ ~hreq.getFails
    /\ UidString(ReqFid) \in DOMAIN files

ReqRecord == files[UidString(ReqFid)]

\* The If-None-Match header of the request is the record's tag in double quotes.
ReqTagMatches == Get(hreq.headers, "If-None-Match") = "\"" \o ReqRecord.ETag \o "\""

\* The URL that signing the request built for this call yields.
ReqSignedURL ==
    Presign(MakeAwsReq(conf[hreq.inst], hreq.method, hreq.url, ReqFid, ReqRecord),
            conf[hreq.inst].PresignTTL, TRUE).url

C2_NotModifiedIff ==
    RecordFound =>
        /\ hret.status = 304 <=> (ReqRecord.ETag # "" /\ ReqTagMatches)
        /\ hret.status = 304 =>
              /\ DOMAIN hret.headers = {"ETag", "Cache-Control"}
              /\ htrace.awsReqs = <<>>
              /\ htrace.presigns = 0

\* C9 as stated: when signing the GET or HEAD request fails, Headers returns
\* the signing error and with it no headers and no redirect status.
C9_NoHeadersOnSignError ==
    (hreq # NoCall /\ htrace.presigns = 1 /\ ~hreq.signOK) =>
        /\ hret.err = "ErrPresign"
        /\ DOMAIN hret.headers = {}
        /\ hret.status # 308

\* C11: for a request the CORS step leaves to Headers (status 0, method
\* neither POST nor PUT): a URL that resolves to the zero identifier fails
\* with ErrNotFound without the store being consulted; an identifier without
\* a record fails with ErrNotFound; a failing store lookup returns the store's
\* own error; in all three there are no headers, status 0 and no request is
\* built or signed.
C11_NotFound ==
    NotAnsweredByCORS =>
        LET zero == \/ hreq.url.dir # conf[hreq.inst].ServeURL
                    \/ hreq.url.stem \notin {"id" \o ToString(u) : u \in 1..MaxUid}
            norec == ~zero /\ ~hreq.getFails /\ hreq.url.stem \notin DOMAIN files
            storeErr == ~zero /\ hreq.getFails
        IN
        /\ zero => hret.err = "ErrNotFound" /\ htrace.storeGets = <<>>
        /\ norec => hret.err = "ErrNotFound" /\ htrace.storeGets = <<hreq.url.stem>>
        /\ storeErr => hret.err = "ErrStore" /\ htrace.storeGets = <<hreq.url.stem>>
        /\ (zero \/ norec \/ storeErr) =>
              /\ DOMAIN hret.headers = {}
              /\ hret.status = 0
              /\ htrace.awsReqs = <<>>
              /\ htrace.presigns = 0
        /\ hret.err = "ErrNotFound" => (zero \/ norec)

\* A GET for an identifier the store has no record of was refused.
C11_Witness ==
    /\ NotAnsweredByCORS /\ hreq.method = "GET" /\ ~hreq.getFails
    /\ ReqFid # ZeroUid
    /\ UidString(ReqFid) \notin DOMAIN files
    /\ hret.err = "ErrNotFound"
    /\ htrace.storeGets # <<>>

\* C12: when the CORS step answers with a nonzero status, or the method is
\* POST or PUT, Headers returns exactly the CORS step's headers and status
\* with no error, and neither resolves the identifier, nor consults the
\* store, nor builds or signs a request.
C12_CORSShortCircuit ==
    (hreq # NoCall /\ (hreq.cors.status # 0 \/ hreq.method \in {"POST", "PUT"})) =>
        /\ hret = [headers |-> hreq.cors.headers, status |-> hreq.cors.status,
                   err |-> "nil"]
        /\ htrace = [cors |-> 1, getId |-> 0, storeGets |-> <<>>,
                     awsReqs |-> <<>>, presigns |-> 0]

\* A PUT the CORS step gave status 0 for an existing record was left alone.
C12_Witness ==
    /\ hreq # NoCall /\ hreq.method = "PUT" /\ hreq.cors.status = 0
    /\ hreq.url.stem \in DOMAIN files /\ hreq.url.dir = conf[hreq.inst].ServeURL
    /\ hret.status = 0 /\ hret.err = "nil"
    /\ htrace.getId = 0

\* C18: 304 and 308 are returned to GET and HEAD only; any other method the
\* CORS step leaves to Headers gets status 0 and neither an ETag nor a
\* Location header, whatever its If-None-Match.
C18_RedirectOnlyGetHead ==
    /\ (hreq # NoCall /\ hret.status \in {304, 308}) => hreq.method \in {"GET", "HEAD"}
    /\ (NotAnsweredByCORS /\ hreq.method \notin {"GET", "HEAD"}) =>
          /\ hret.status = 0
          /\ Get(hret.headers, "ETag") = ""
          /\ Get(hret.headers, "Location") = ""
          /\ htrace.awsReqs = <<>>

\* A DELETE whose If-None-Match names the tag of an existing record returned
\* status 0 without an error.
C18_Witness ==
    /\ RecordFound /\ hreq.method = "DELETE"
    /\ ReqRecord.ETag = "T1"
    /\ Get(hreq.headers, "If-None-Match") = "\"T1\""
    /\ hret.status = 0 /\ hret.err = "nil"

----------------------------------------------------------------------------
\* Properties of Init's provisioning

\* The configuration passes Init's validation.
ConfValid == jsconf.parses /\ ValidateConf(jsconf.fields) = "nil"

\* The CORS configuration the spec requires: GET and HEAD from the configured
\* origins, or from * if none is configured.
ExpectedPolicy ==
    [AllowedMethods |-> <<"GET", "HEAD">>,
     AllowedOrigins |-> IF jsconf.fields.CorsOrigins = <<>> THEN <<"*">>
                        ELSE jsconf.fields.CorsOrigins,
     AllowedHeaders |-> <<"*">>]

LastCall(i) == icalls[i][Len(icalls[i])]

\* Instance i's Init has returned success.
ReturnedOK(i) == ipc[i] = "done" /\ ierr[i] = "nil" /\ ConfValid

\* Only the instances have acted on a bucket that was missing at first, and
\* the backend failed with existence and conflict errors only.
RaceOnly == env.bucket0 = "none" /\ ~env.fault /\ ~env.foreign /\ ConfValid

\* C5: instances racing through Init on a bucket that is missing at first
\* (the backend failing with existence and conflict errors only): every
\* instance that has returned returned success, and once all have returned
\* the bucket exists and carries the cross-origin read policy.
C5_ClusterRace ==
    RaceOnly =>
        /\ \A i \in Instances : ipc[i] = "done" => ierr[i] = "nil"
        /\ (\A i \in Instances : ipc[i] = "done") =>
              bucket = "owned" /\ policy = ExpectedPolicy

\* All instances have returned, one after creating the bucket, another after
\* its own creation attempt met the creation in progress.
C5_Witness ==
    /\ RaceOnly
    /\ \A i \in Instances : ipc[i] = "done"
    /\ \E i, j \in Instances :
         /\ icalls[i] # <<>> /\ LastCall(i) = Call("PutBucketCors", "nil")
         /\ icalls[j] # <<>> /\ LastCall(j) = Call("CreateBucket", "OperationAborted")

\* C6: when the probe reports the bucket missing and the create call fails
\* with BucketAlreadyExists, BucketAlreadyOwnedByYou or OperationAborted, Init
\* returns success and this instance makes no put-policy call.
C6_BenignCreate ==
    \A i \in Instances :
        ( /\ Len(icalls[i]) >= 2
          /\ icalls[i][1] = Call("HeadBucket", "NoSuchBucket")
          /\ icalls[i][2].op = "CreateBucket"
          /\ icalls[i][2].code \in
                {"BucketAlreadyExists", "BucketAlreadyOwnedByYou", "OperationAborted"} )
        => /\ ipc[i] = "done"
           /\ ierr[i] = "nil"
           /\ Len(icalls[i]) = 2

\* An instance returned after its create call found the bucket owned already.
C6_Witness ==
    \E i \in Instances :
        /\ ipc[i] = "done" /\ ierr[i] = "nil"
        /\ icalls[i] = <<Call("HeadBucket", "NoSuchBucket"),
                         Call("CreateBucket", "BucketAlreadyOwnedByYou")>>

\* Instance i takes a step of Init.
InitStep(i) == ipc[i] \notin {"idle", "done"} /\ ipc'[i] # ipc[i]

\* C7: when the probe succeeds Init returns success at once, having made the
\* probe call only, and the bucket and its policy are unchanged; a run of
\* Init that follows a successful one and finds the bucket existing leaves
\* the backend state as it was.
C7_IdempotentOnExisting ==
    [][\A i \in Instances :
          /\ ( /\ ipc[i] = "probe"
               /\ icalls'[i] = <<Call("HeadBucket", "nil")>> )
             => /\ ipc'[i] = "done"
                /\ ierr'[i] = "nil"
                /\ bucket' = bucket
                /\ policy' = policy
          /\ (okRuns[i] >= 1 /\ istart[i] = "owned" /\ InitStep(i))
             => /\ bucket' = bucket
                /\ policy' = policy
                /\ ipc'[i] = "done"
                /\ Len(icalls'[i]) = 1
      ]_vars

\* An instance that created the bucket ran Init again and returned after the
\* probe.
C7_Witness ==
    \E i \in Instances :
        /\ runs[i] = 2 /\ okRuns[i] = 2
        /\ ipc[i] = "done" /\ ierr[i] = "nil"
        /\ icalls[i] = <<Call("HeadBucket", "nil")>>
        /\ bucket = "owned" /\ policy = ExpectedPolicy /\ env.bucket0 = "none"

\* C8 as stated: whenever Init returns success, the bucket exists and has
\* the required cross-origin read policy at the moment Init returns.
C8_SuccessMeansPolicy ==
    [][\A i \in Instances :
          (ipc[i] # "done" /\ ipc'[i] = "done" /\ ierr'[i] = "nil" /\ ConfValid)
          => (bucket' = "owned" /\ policy' = ExpectedPolicy)
      ]_vars

\* C8, amended: an Init that returned success after creating the bucket
\* itself and putting the policy left the bucket existing with the required
\* policy; an Init that returned success after the probe found the bucket
\* left it existing.
C8_CreatorMeansPolicy ==
    \A i \in Instances :
        (ReturnedOK(i) /\ icalls[i] # <<>>) =>
            /\ LastCall(i) = Call("PutBucketCors", "nil")
                  => (bucket = "owned" /\ policy = ExpectedPolicy)
            /\ LastCall(i) = Call("HeadBucket", "nil") => bucket = "owned"

\* An instance configured with no origins created the bucket and returned.
C8_Witness ==
    \E i \in Instances :
        /\ ReturnedOK(i)
        /\ jsconf.fields.CorsOrigins = <<>>
        /\ icalls[i] = <<Call("HeadBucket", "NoSuchBucket"), Call("CreateBucket", "nil"),
                         Call("PutBucketCors", "nil")>>
        /\ policy.AllowedOrigins = <<"*">>

\* The call failed with an error that is no benign creation race.
Fatal(c) ==
    \/ c.op = "HeadBucket" /\ c.code \notin {"nil", "NoSuchBucket"}
    \/ c.op = "CreateBucket" /\ c.code \notin
          {"nil", "BucketAlreadyExists", "BucketAlreadyOwnedByYou", "OperationAborted"}
    \/ c.op = "PutBucketCors" /\ c.code # "nil"

\* C10: a probe failure other than 'no such bucket', a create failure other
\* than the three benign codes and a put-policy failure each end Init with
\* that error, no further backend call being made.
C10_HardErrorsFatal ==
    \A i \in Instances : \A k \in 1..Len(icalls[i]) :
        Fatal(icalls[i][k]) =>
            /\ k = Len(icalls[i])
            /\ ipc[i] = "done"
            /\ ierr[i] = icalls[i][k].code
            /\ ierr[i] # "nil"

\* One instance returned the probe's error, another the put-policy error.
C10_Witness ==
    \E i, j \in Instances :
        /\ ipc[i] = "done" /\ icalls[i] = <<Call("HeadBucket", "RequestError")>>
        /\ ierr[i] = "RequestError"
        /\ ipc[j] = "done" /\ Len(icalls[j]) = 3
        /\ LastCall(j) = Call("PutBucketCors", "RequestError")
        /\ ierr[j] = "RequestError"

\* A required setting of the configuration given to Init is empty.
RequiredMissing ==
    \/ jsconf.fields.AccessKeyId = ""
    \/ jsconf.fields.SecretAccessKey = ""
    \/ jsconf.fields.Region = ""
    \/ jsconf.fields.BucketName = ""

\* C13: when the access key id, the secret key, the region or the bucket name
\* is empty, Init fails with an error naming the first missing setting, and
\* it has neither asked for a backend session nor made a backend call.
C13_MissingSettingFails ==
    \A i \in Instances :
        (jsconf.parses /\ RequiredMissing /\ ipc[i] # "idle") =>
            /\ ipc[i] = "done"
            /\ ierr[i] = IF jsconf.fields.AccessKeyId = "" THEN "missing Access Key ID"
                         ELSE IF jsconf.fields.SecretAccessKey = ""
                              THEN "missing Secret Access Key"
                         ELSE IF jsconf.fields.Region = "" THEN "missing Region"
                         ELSE "missing Bucket"
            /\ ~isess[i]
            /\ icalls[i] = <<>>
            /\ okRuns[i] = 0

\* Init was given a configuration without a bucket name and refused it.
C13_Witness ==
    \E i \in Instances :
        /\ jsconf.parses /\ jsconf.fields.BucketName = ""
        /\ jsconf.fields.AccessKeyId # ""
        /\ ipc[i] = "done" /\ ierr[i] = "missing Bucket"

\* C14: once Init has passed validation the instance's validity period is
\* positive and its cache-control and serve URL are non-empty: a period that
\* is not positive became 120, an empty cache-control 'no-cache,
\* must-revalidate', an empty serve URL '/v0/file/s/', and configured values
\* are kept.
C14_DefaultsApplied ==
    \A i \in Instances :
        (jsconf.parses /\ ~RequiredMissing /\ (ipc[i] # "idle" \/ runs[i] > 1)) =>
            LET js == jsconf.fields IN
            /\ conf[i].PresignTTL > 0
            /\ conf[i].CacheControl # ""
            /\ conf[i].ServeURL # ""
            /\ conf[i].PresignTTL = IF js.PresignTTL <= 0 THEN 120 ELSE js.PresignTTL
            /\ conf[i].CacheControl = IF js.CacheControl = ""
                                      THEN "no-cache, must-revalidate" ELSE js.CacheControl
            /\ conf[i].ServeURL = IF js.ServeURL = "" THEN "/v0/file/s/" ELSE js.ServeURL
            /\ conf[i].AccessKeyId = js.AccessKeyId
            /\ conf[i].SecretAccessKey = js.SecretAccessKey
            /\ conf[i].Region = js.Region
            /\ conf[i].BucketName = js.BucketName
            /\ conf[i].CorsOrigins = js.CorsOrigins

\* Init returned success for a configuration that sets none of the optional
\* settings, and the instance runs with the three defaults.
C14_Witness ==
    \E i \in Instances :
        /\ jsconf.parses /\ ~RequiredMissing
        /\ jsconf.fields.PresignTTL = 0 /\ jsconf.fields.CacheControl = ""
        /\ jsconf.fields.ServeURL = ""
        /\ ipc[i] = "done" /\ ierr[i] = "nil"
        /\ conf[i].PresignTTL = 120

----------------------------------------------------------------------------
\* Properties of Upload

\* C3: if StartUpload fails, Upload returns that error with an empty URL and
\* 0 bytes, makes no backend upload call, and no byte is read from the stream
\* or sent to the backend; the StartUpload call precedes every backend upload
\* call.
C3_MarkBeforeBackend ==
    /\ (ucall # NoUpload /\ ucall.startErr # "nil") =>
          /\ upc = "done"
          /\ uret = [url |-> "", size |-> 0, err |-> ucall.startErr]
          /\ ulog = <<"StartUpload">>
          /\ ustream.pos = 0
          /\ ucount = 0
          /\ uback.sent = 0
          /\ objects = <<>>
          /\ \A t \in Readers : rd[t].pc = "idle"
    /\ \A k \in 1..Len(ulog) :
          ulog[k] = "Upload" => \E j \in 1..(k - 1) : ulog[j] = "StartUpload"
    /\ (ustream.pos > 0 \/ uback.sent > 0) => (ulog # <<>> /\ ulog[1] = "StartUpload")

\* Upload of a non-empty stream returned the store's error.
C3_Witness ==
    /\ ucall.startErr = "ErrStore"
    /\ ucall.len > 0
    /\ upc = "done"
    /\ uret.err = "ErrStore"

\* The bytes read by Reads that have not yet added to the counter.
RECURSIVE Uncounted(_)
Uncounted(n) ==
    IF n = 0 THEN 0
    ELSE (IF rd[n].pc = "count" THEN rd[n].n ELSE 0) + Uncounted(n - 1)

\* C4: a successful upload of a stream of N bytes returns N as the bytes
\* written, however the uploader's Reads interleave and whatever parts it
\* sends again; every byte handed out by the stream is counted once.
C4_ExactCount ==
    /\ ucount + Uncounted(NReaders) = ustream.pos
    /\ (upc = "done" /\ ucall.startErr = "nil" /\ uret.err = "nil") =>
          /\ uret.size = ucall.len
          /\ uback.sent = ucall.len

\* A full-length stream was uploaded with overlapping Reads and a part sent
\* twice.
C4_Witness ==
    /\ upc = "done" /\ uret.err = "nil"
    /\ ucall.len = MaxStream
    /\ uret.size = MaxStream
    /\ uback.overlapped
    /\ uback.retries > 0


\* C17: when the backend upload fails after the record was marked, Upload
\* returns the uploader's error with an empty URL and a count of 0, whatever
\* was read; the record's location and tag are as they were, no store or
\* backend call follows, and the store still has the record as in progress.
C17_FailureLeavesRecord ==
    (upc = "done" /\ ucall.startErr = "nil" /\ uback.err # "nil") =>
        /\ uret = [url |-> "", size |-> 0, err |-> "RequestError"]
        /\ ufdef.Location = ""
        /\ ufdef.ETag = ""
        /\ ulog = <<"StartUpload", "Upload">>
        /\ ufdef.Id \in DOMAIN files
        /\ files[ufdef.Id].Status = "uploading"
        /\ files[ufdef.Id].Location = ""
        /\ files[ufdef.Id].ETag = ""

\* An upload failed after bytes of the stream had been read and counted.
C17_Witness ==
    /\ upc = "done" /\ ucall.startErr = "nil"
    /\ uback.err = "RequestError"
    /\ ucount > 0
    /\ uret.err = "RequestError"


----------------------------------------------------------------------------
\* Properties of Delete, of Download and of the storage keys

\* The locations of the Delete call made.
Listed == { del.locations[j] : j \in 1..Len(del.locations) }

\* C15: Delete hands the batcher exactly the given locations, in order, each
\* with the configured bucket, in one call; an empty list succeeds and removes
\* nothing; when the call succeeds every listed object that existed is gone,
\* whether or not other listed keys existed; an object that is not listed is
\* never touched; the call fails only when the backend failed.
C15_BatchDelete ==
    del # NoDelete =>
        /\ Len(del.toDelete) = Len(del.locations)
        /\ \A j \in 1..Len(del.locations) :
              del.toDelete[j] = [Key |-> del.locations[j],
                                 Bucket |-> conf[del.inst].BucketName]
        /\ del.batches = 1
        /\ del.locations = <<>> => (del.err = "nil" /\ objects = del.before)
        /\ del.err = "nil" => DOMAIN objects = DOMAIN del.before \ Listed
        /\ \A k \in DOMAIN del.before \ Listed :
              k \in DOMAIN objects /\ objects[k] = del.before[k]
        /\ DOMAIN objects \subseteq DOMAIN del.before
        /\ del.err # "nil" <=> del.backendErr # "nil"

\* A Delete of an uploaded object's key and of a key that was never stored
\* succeeded and the object is gone.
C15_Witness ==
    /\ del # NoDelete /\ del.err = "nil"
    /\ "gone" \in Listed
    /\ \E k \in Listed : k \in DOMAIN del.before /\ k \notin DOMAIN objects

\* C16: every Download call returns the Unsupported error with no record and
\* no stream, makes no store or backend call and changes nothing else.
C16_DownloadUnsupported ==
    [][(dl' # dl /\ dl' # NoDownload) =>
          /\ dl'.err = "ErrUnsupported"
          /\ dl'.fdef = NoFileDef
          /\ dl'.body = "nil"
          /\ dl'.calls = <<>>
          /\ UNCHANGED <<conf, files, hvars, ivars, uvars, del>>
      ]_vars

\* A Download of the URL of an uploaded file was refused.
C16_Witness ==
    /\ dl # NoDownload /\ dl.err = "ErrUnsupported"
    /\ dl.url.dir = conf[dl.inst].ServeURL
    /\ dl.url.stem \in DOMAIN files
    /\ files[dl.url.stem].Status = "ready"
    /\ files[dl.url.stem].Location \in DOMAIN objects

\* C19: the key Upload stores under, the location it records and the key
\* Headers signs for are, for the identifier u, the one string "KEY" u,
\* whatever the MIME type and the URL's query; a redirect for an uploaded
\* identifier names the object uploaded for it; records of different
\* identifiers have different locations; a successful Delete of a recorded
\* location removes that object and no other.
C19_KeyAgreement ==
    /\ DOMAIN objects \subseteq {"KEY" \o ToString(u) : u \in 1..MaxUid}
    /\ \A u \in 1..MaxUid :
          LET id == "id" \o ToString(u)
              key == "KEY" \o ToString(u)
          IN
          /\ (upc = "done" /\ uret.err = "nil" /\ ufdef.Id = id) =>
                /\ ucall.key = key
                /\ ufdef.Location = key
                /\ key \in DOMAIN objects
          /\ (id \in DOMAIN files /\ files[id].Location # "") =>
                files[id].Location = key
          /\ (hreq # NoCall /\ hret.status = 308 /\ hreq.url.stem = id) =>
                /\ Len(htrace.awsReqs) = 1
                /\ htrace.awsReqs[1].Key = key
                /\ htrace.awsReqs[1].Bucket = conf[hreq.inst].BucketName
                /\ (files[id].Location # "" /\ key \in DOMAIN objects
                       /\ objects[key].ETag # "nil") =>
                      files[id].ETag = TrimQuotes(objects[key].ETag)
          /\ (del # NoDelete /\ del.err = "nil" /\ id \in DOMAIN files
                 /\ files[id].Location # "" /\ del.locations = <<files[id].Location>>) =>
                DOMAIN objects = DOMAIN del.before \ {key}
    /\ (hreq # NoCall /\ hret.status = 308) =>
          hreq.url.stem \in {"id" \o ToString(u) : u \in 1..MaxUid}
    /\ \A a \in DOMAIN files, b \in DOMAIN files :
          (a # b /\ files[a].Location # "") => files[a].Location # files[b].Location
    /\ \A a \in DOMAIN files :
          (a # ufdef.Id /\ files[a].Location # "") => files[a].Location # ufdef.Location

\* A GET with asatt for an uploaded file without a known extension was
\* redirected to the key its record has, where the object is.
C19_Witness ==
    /\ hreq # NoCall /\ hreq.method = "GET" /\ hreq.url.asatt = "1"
    /\ hret.status = 308
    /\ hreq.url.stem \in DOMAIN files
    /\ files[hreq.url.stem].MimeType = "application/x-none"
    /\ files[hreq.url.stem].Status = "ready"
    /\ htrace.awsReqs[1].Key = files[hreq.url.stem].Location
    /\ htrace.awsReqs[1].Key \in DOMAIN objects

====
